---- MODULE Spec2Model ----
(***************************************************************************)
(* legacyinstall.py: install a Modrinth modpack archive into a directory   *)
(* tree.  main() runs loadModpack, getMods, downloadMods, copyOverrides in *)
(* sequence; every error path ends the process.  The model keeps the file  *)
(* system (pack directory and install tree) across runs of the program, so *)
(* that a second invocation on the same archive sees what the first left.  *)
(***************************************************************************)
EXTENDS Integers, Sequences, FiniteSets, TLC

\* Bounds of the model.
MaxFiles == 3          \* longest manifest file list
MaxRuns == 3           \* invocations of main() on the same archive

(***************************************************************************)
(* Strings the code takes apart are sequences of tokens, so that urlparse  *)
(* and the digest comparison are computed rather than assumed.             *)
(***************************************************************************)

\* line 11
ACCEPTED_DOMAINS ==
  { <<"cdn.modrinth.com">>, <<"github.com">>, <<"raw.githubusercontent.com">>,
    <<"gitlab.com">> }

\* A URL  scheme://[userinfo@]host[:port]/path .
MkUrl(u, h, p, f) == [userinfo |-> u, host |-> h, port |-> p, file |-> f]

U_CDN   == MkUrl("", "cdn.modrinth.com", "", "a.jar")
U_GH    == MkUrl("", "github.com", "", "b.jar")
U_EVIL  == MkUrl("", "evil.example", "", "x.jar")
U_AT    == MkUrl("github.com", "evil.example", "", "x.jar")
Urls == {U_CDN, U_GH, U_EVIL, U_AT}

\* urlparse(url).netloc: everything between "//" and the next "/", that is
\* the userinfo and the port together with the host.
Netloc(url) ==
  (IF url.userinfo = "" THEN <<>> ELSE <<url.userinfo, "@">>)
  \o <<url.host>>
  \o (IF url.port = "" THEN <<>> ELSE <<":", url.port>>)

\* urlparse(url).hostname, as a one-token string like the allow-list entries.
Host(url) == <<url.host>>

\* Mutant: accept a netloc that merely contains an accepted domain.
DomainAcceptedSubstring(url) ==
  \E k \in 1..Len(Netloc(url)) : <<Netloc(url)[k]>> \in ACCEPTED_DOMAINS

\* line 64:  domain not in ACCEPTED_DOMAINS
DomainAccepted(url) == Netloc(url) \in ACCEPTED_DOMAINS

(***************************************************************************)
(* File contents are byte sequences.                                       *)
(***************************************************************************)
BlobA     == <<1, 2>>      \* a mod jar served by the network
BlobB     == <<3>>         \* another served file
OvBlob    == <<4>>         \* content of the files under overrides/
IndexBlob == <<5>>         \* bytes of pack/modrinth.index.json
NetBlobs  == {BlobA, BlobB}

\* Strict prefixes of a byte sequence: what a write that fails part-way leaves.
StrictPrefixes(d) == { SubSeq(d, 1, n) : n \in 0..(Len(d) - 1) }

HexLower == <<"0","1","2","3","4","5","6","7","8","9","a","b","c","d","e","f">>
HexUpper == <<"0","1","2","3","4","5","6","7","8","9","A","B","C","D","E","F">>

\* A byte-wise mixing function standing for the SHA-1 compression.
RECURSIVE Mix(_, _)
Mix(h, d) == IF d = <<>> THEN h ELSE Mix((h * 31 + Head(d) + 1) % 256, Tail(d))

\* hashlib.sha1(data).hexdigest(): lower-case hex digits (two of them here).
Sha1Hex(d) ==
  LET h == Mix(218, d)
  IN  <<HexLower[(h \div 16) + 1], HexLower[(h % 16) + 1]>>

\* The same digest as a manifest could spell it, in upper-case hex.
Sha1HexUpper(d) ==
  LET h == Mix(218, d)
  IN  <<HexUpper[(h \div 16) + 1], HexUpper[(h % 16) + 1]>>

\* str.lower() on a hex string.
LowerChar(c) ==
  IF \E k \in 1..16 : HexUpper[k] = c
    THEN HexLower[CHOOSE k \in 1..16 : HexUpper[k] = c]
    ELSE c
Lower(s) == [k \in 1..Len(s) |-> LowerChar(s[k])]

(***************************************************************************)
(* Paths and directory trees.  A tree maps every path to a node.           *)
(***************************************************************************)
ROOT    == <<>>
P_MODS  == <<"mods">>
P_JAR   == <<"mods", "a.jar">>
P_INDEX == <<"modrinth.index.json">>
AllPaths == {ROOT, P_MODS, P_JAR, P_INDEX}

None     == [kind |-> "none", data |-> <<>>]
Dir      == [kind |-> "dir",  data |-> <<>>]
File(d)  == [kind |-> "file", data |-> d]

EmptyTree == [p \in AllPaths |-> None]

\* Path.parent
Parent(p) == IF p = ROOT THEN ROOT ELSE SubSeq(p, 1, Len(p) - 1)

\* Mutant: the existence test never succeeds.
ExistsNever(t, p) == FALSE

\* Mutant: is_file() in place of exists().
ExistsFileOnly(t, p) == t[p].kind = "file"

\* Path.exists(): true of a file and of a directory.
Exists(t, p) == t[p].kind # "none"

\* Path.mkdir(parents=True, exist_ok=True): raises when the path or one of its
\* parents is a regular file; the directories made before that stay.
RECURSIVE Mkdirs(_, _)
Mkdirs(t, p) ==
  IF t[p].kind = "dir" THEN [ok |-> TRUE, tree |-> t]
  ELSE IF t[p].kind = "file" THEN [ok |-> FALSE, tree |-> t]
  ELSE IF p = ROOT THEN [ok |-> TRUE, tree |-> [t EXCEPT ![ROOT] = Dir]]
  ELSE LET m == Mkdirs(t, Parent(p))
       IN  IF m.ok THEN [ok |-> TRUE, tree |-> [m.tree EXCEPT ![p] = Dir]]
           ELSE m

(***************************************************************************)
(* The manifest (modrinth.index.json) and the archive.                     *)
(***************************************************************************)
MkFile(dl, p, h1, h512) ==
  [downloads |-> dl, path |-> p, hashes |-> [sha1 |-> h1, sha512 |-> h512]]

F_JAR   == MkFile(<<U_CDN>>, P_JAR, Sha1Hex(BlobA), <<"5", "1", "2">>)
F_SAME  == MkFile(<<U_GH, U_EVIL>>, P_JAR, Sha1Hex(BlobB), <<"5", "1", "2">>)
F_UPPER == MkFile(<<U_CDN>>, P_JAR, Sha1HexUpper(BlobA), <<"5", "1", "2">>)
F_INDEX == MkFile(<<U_GH>>, P_INDEX, Sha1Hex(BlobB), <<"5", "1", "2">>)
F_MODS  == MkFile(<<U_CDN>>, P_MODS, Sha1Hex(BlobB), <<"5", "1", "2">>)
F_EVIL  == MkFile(<<U_EVIL, U_CDN>>, P_JAR, Sha1Hex(BlobA), <<"5", "1", "2">>)
F_AT    == MkFile(<<U_AT>>, P_MODS, Sha1Hex(BlobA), <<"5", "1", "2">>)
FileEntries == {F_JAR, F_SAME, F_UPPER, F_INDEX, F_MODS, F_EVIL, F_AT}

FileLists == UNION { [1..n -> FileEntries] : n \in 0..MaxFiles }

MkData(v, fs) == [formatVersion |-> v, files |-> fs]
NoData == MkData(0, <<>>)

\* The overrides directory of the pack: absent, or a tree of files.
MkOverrides(t) == [present |-> TRUE, tree |-> t]
OV_NONE == [present |-> FALSE, tree |-> EmptyTree]
OV_JAR  ==
  MkOverrides([EmptyTree EXCEPT ![ROOT] = Dir, ![P_MODS] = Dir, ![P_JAR] = File(OvBlob)])
OV_INDEX ==
  MkOverrides([EmptyTree EXCEPT ![ROOT] = Dir, ![P_INDEX] = File(OvBlob)])
OverridesOptions == {OV_NONE, OV_JAR, OV_INDEX}

\* What the pack directory holds once the archive is extracted into it.
MkPack(hasIndex, d, ov) ==
  [exists |-> TRUE, hasIndex |-> hasIndex, index |-> d, overrides |-> ov]
NoPack == [exists |-> FALSE, hasIndex |-> FALSE, index |-> NoData, overrides |-> OV_NONE]

\* The path the user gives: no such file, a file that is no zip, or a zip.
MkArchive(k, c) == [kind |-> k, content |-> c]
Archives ==
  { MkArchive("missing", NoPack), MkArchive("notzip", NoPack),
    MkArchive("zip", MkPack(FALSE, NoData, OV_NONE)) }
  \cup { MkArchive("zip", MkPack(TRUE, MkData(v, fs), ov)) :
           v \in {1, 2}, fs \in FileLists, ov \in OverridesOptions }

(***************************************************************************)
(* State.                                                                  *)
(***************************************************************************)
VARIABLES
  archive,    \* the archive file the user names (the same in every run)
  pack,       \* cwd/<stem>/pack: the extracted archive
  tree,       \* cwd/<stem>/install: the install tree
  pc,         \* where main() is
  data,       \* main's `index`: the parsed manifest
  resources,  \* the list getMods returned
  i,          \* downloadMods: 1-based position of the for loop
  outcome,    \* "running", "Done", or the fatal error that ended the run
  exitCode,   \* the process's exit status once pc = "exited"
  log,        \* what this run did, in order
  run,        \* number of the current invocation
  snapshot,   \* the install tree a successful previous run left
  written     \* per path: whether downloadMods' open('wb') made the file there

vars == <<archive, pack, tree, pc, data, resources, i, outcome, exitCode, log,
          run, snapshot, written>>

Ev(op, k, ok, d) == [op |-> op, i |-> k, ok |-> ok, data |-> d]

NotWritten     == [by |-> FALSE, hash |-> <<>>]
WrittenFor(h)  == [by |-> TRUE, hash |-> h]

Init ==
  /\ archive \in Archives
  /\ pack = NoPack
  /\ tree = EmptyTree
  /\ pc = "loadModpack"
  /\ data = NoData
  /\ resources = <<>>
  /\ i = 0
  /\ outcome = "running"
  /\ exitCode = 0
  /\ log = <<>>
  /\ run = 1
  /\ snapshot = [valid |-> FALSE, tree |-> EmptyTree]
  /\ written = [p \in AllPaths |-> NotWritten]

\* print(...); exit(1), or an uncaught exception: the process ends, status 1.
Fatal(err) ==
  /\ pc' = "exited"
  /\ outcome' = err
  /\ exitCode' = 1

(***************************************************************************)
(* loadModpack                                                             *)
(***************************************************************************)
\* Mutant: any format version is taken.
VersionSupportedAny(d) == TRUE

\* line 49:  data['formatVersion'] != 1
VersionSupported(d) == d.formatVersion = 1

\* lines 28-37: extract into the pack directory unless it already exists.
Extracted(a, pk) == IF pk.exists THEN pk ELSE a.content

\* lines 18-54: the error loadModpack ends with, "" when it returns the data.
LoadError(a, pk) ==
  IF a.kind = "missing" THEN "NotFound"
  ELSE IF a.kind = "notzip" THEN "InvalidArchive"
  ELSE IF ~Extracted(a, pk).hasIndex THEN "NotModpack"
  ELSE IF ~VersionSupported(Extracted(a, pk).index) THEN "UnsupportedVersion"
  ELSE ""

LoadModpack ==
  /\ pc = "loadModpack"
  /\ pack' = IF archive.kind = "zip" THEN Extracted(archive, pack) ELSE pack
  /\ log' = IF archive.kind = "zip" /\ ~pack.exists
              THEN Append(log, Ev("extract", 0, TRUE, <<>>)) ELSE log
  /\ IF LoadError(archive, pack) # ""
       THEN Fatal(LoadError(archive, pack)) /\ data' = data
       ELSE /\ data' = Extracted(archive, pack).index
            /\ pc' = "getMods"
            /\ UNCHANGED <<outcome, exitCode>>
  /\ UNCHANGED <<archive, tree, resources, i, run, snapshot, written>>

(***************************************************************************)
(* getMods                                                                 *)
(***************************************************************************)
\* Mutant: the last candidate URL instead of the first.
LastUrl(f) == f.downloads[Len(f.downloads)]

\* line 59:  file['downloads'][0]
FirstUrl(f) == f.downloads[1]

\* lines 59-61, 70
Resource(f) == [url |-> FirstUrl(f), path |-> f.path, hash |-> f.hashes.sha1]

\* lines 57-72: the loop from entry k on, with the resources gathered so far.
RECURSIVE GetModsFrom(_, _, _)
GetModsFrom(files, k, acc) ==
  IF k > Len(files) THEN [err |-> "", resources |-> acc]
  ELSE IF ~DomainAccepted(FirstUrl(files[k]))
    THEN [err |-> "UnapprovedDomain", resources |-> acc]
  ELSE GetModsFrom(files, k + 1, Append(acc, Resource(files[k])))

GetModsResult(d) == GetModsFrom(d.files, 1, <<>>)

GetMods ==
  /\ pc = "getMods"
  /\ IF GetModsResult(data).err # ""
       THEN Fatal(GetModsResult(data).err) /\ UNCHANGED resources
       ELSE /\ resources' = GetModsResult(data).resources
            /\ pc' = "downloadMods"
            /\ UNCHANGED <<outcome, exitCode>>
  /\ UNCHANGED <<archive, pack, tree, data, i, log, run, snapshot, written>>

(***************************************************************************)
(* downloadMods                                                            *)
(***************************************************************************)
\* lines 75-76: make the install root, then enter the loop.
DownloadMods ==
  /\ pc = "downloadMods"
  /\ tree' = Mkdirs(tree, ROOT).tree
  /\ i' = 1
  /\ pc' = "loop"
  /\ UNCHANGED <<archive, pack, data, resources, outcome, exitCode, log, run,
                 snapshot, written>>

\* Mutant: every digest is taken as matching.
HashMatchesAlways(digest, hash) == TRUE

\* Mutant: the two hex strings are compared without regard to letter case.
HashMatchesNoCase(digest, hash) == Lower(digest) = Lower(hash)

\* line 100:  digest != hash  (string comparison)
HashMatches(digest, hash) == digest = hash

\* lines 79-84: the resource of this iteration, and its parent directories made.
Cur  == resources[i]
Dest == Cur.path
Made == Mkdirs(tree, Parent(Dest))

InLoop == pc = "loop" /\ i <= Len(resources)

\* line 84 raises (a parent of the destination is a regular file): uncaught.
DownloadMkdirFails ==
  /\ InLoop
  /\ ~Made.ok
  /\ tree' = Made.tree
  /\ log' = Append(log, Ev("mkdir", i, FALSE, <<>>))
  /\ Fatal("Crash")
  /\ UNCHANGED <<archive, pack, data, resources, i, run, snapshot, written>>

\* lines 86-88: the destination exists, continue.
DownloadSkip ==
  /\ InLoop
  /\ Made.ok
  /\ Exists(Made.tree, Dest)
  /\ tree' = Made.tree
  /\ log' = Append(log, Ev("skip", i, TRUE, <<>>))
  /\ i' = i + 1
  /\ UNCHANGED <<archive, pack, pc, data, resources, outcome, exitCode, run,
                 snapshot, written>>

\* lines 93-94 raise (connection error, HTTP error): lines 109-112.
DownloadFetchFails ==
  /\ InLoop
  /\ Made.ok
  /\ ~Exists(Made.tree, Dest)
  /\ tree' = Made.tree
  /\ log' = Append(log, Ev("urlopen", i, FALSE, <<>>))
  /\ Fatal("DownloadFailed")
  /\ UNCHANGED <<archive, pack, data, resources, i, run, snapshot, written>>

\* lines 93-102: the bytes arrive and their digest is not the expected one.
\* exit() raises SystemExit, which `except Exception` does not catch.
DownloadHashMismatch ==
  /\ InLoop
  /\ Made.ok
  /\ ~Exists(Made.tree, Dest)
  /\ \E d \in NetBlobs :
       /\ ~HashMatches(Sha1Hex(d), Cur.hash)
       /\ log' = log \o <<Ev("urlopen", i, TRUE, d), Ev("compare", i, FALSE, d)>>
  /\ tree' = Made.tree
  /\ Fatal("HashMismatch")
  /\ UNCHANGED <<archive, pack, data, resources, i, run, snapshot, written>>

\* lines 93-107: the digest matches and the bytes are written.
DownloadWrite ==
  /\ InLoop
  /\ Made.ok
  /\ ~Exists(Made.tree, Dest)
  /\ \E d \in NetBlobs :
       /\ HashMatches(Sha1Hex(d), Cur.hash)
       /\ tree' = [Made.tree EXCEPT ![Dest] = File(d)]
       /\ log' = log \o <<Ev("urlopen", i, TRUE, d), Ev("compare", i, TRUE, d),
                          Ev("write", i, TRUE, d)>>
  /\ written' = [written EXCEPT ![Dest] = WrittenFor(Cur.hash)]
  /\ i' = i + 1
  /\ UNCHANGED <<archive, pack, pc, data, resources, outcome, exitCode, run,
                 snapshot>>

\* lines 106-112: open('wb') has made the file and write() raises (disk full,
\* I/O error): the file keeps the bytes written so far, the handler exits.
DownloadWriteFails ==
  /\ InLoop
  /\ Made.ok
  /\ ~Exists(Made.tree, Dest)
  /\ \E d \in NetBlobs :
       /\ HashMatches(Sha1Hex(d), Cur.hash)
       /\ \E part \in StrictPrefixes(d) :
            /\ tree' = [Made.tree EXCEPT ![Dest] = File(part)]
            /\ log' = log \o <<Ev("urlopen", i, TRUE, d), Ev("compare", i, TRUE, d),
                               Ev("write", i, FALSE, part)>>
  /\ written' = [written EXCEPT ![Dest] = WrittenFor(Cur.hash)]
  /\ Fatal("DownloadFailed")
  /\ UNCHANGED <<archive, pack, data, resources, i, run, snapshot>>

(***************************************************************************)
(* copyOverrides, then main's print('Done!')                               *)
(***************************************************************************)
IsProperPrefix(q, p) == Len(q) < Len(p) /\ SubSeq(p, 1, Len(q)) = q

\* A directory of the source where the destination has a regular file:
\* os.makedirs raises, copytree notes the error and goes on with the rest.
Conflict(dst, src, p) == src[p].kind = "dir" /\ dst[p].kind = "file"
Blocked(dst, src, p) ==
  \E q \in AllPaths : IsProperPrefix(q, p) /\ Conflict(dst, src, q)

\* Mutant: a file already in the destination is kept.
CopyTreeKeepExisting(dst, src) ==
  [ok |-> ~\E p \in AllPaths : Conflict(dst, src, p),
   tree |-> [p \in AllPaths |->
               IF src[p].kind = "none" \/ Blocked(dst, src, p) \/ dst[p].kind = "file"
                 THEN dst[p]
               ELSE IF src[p].kind = "dir" THEN Dir
               ELSE File(src[p].data)]]

\* line 125:  shutil.copytree(overrides, installDir, dirs_exist_ok=True).
\* (No file of an overrides tree here meets a directory of the install tree.)
CopyTree(dst, src) ==
  [ok |-> ~\E p \in AllPaths : Conflict(dst, src, p),
   tree |-> [p \in AllPaths |->
               IF src[p].kind = "none" \/ Blocked(dst, src, p) THEN dst[p]
               ELSE IF src[p].kind = "dir"
                 THEN (IF dst[p].kind = "file" THEN dst[p] ELSE Dir)
               ELSE File(src[p].data)]]

\* The paths whose file copytree replaced.
Replaced(dst, src) ==
  { p \in AllPaths : src[p].kind = "file" /\ ~Blocked(dst, src, p) }

\* line 132:  shutil.copy(pack / 'modrinth.index.json', installDir / ...)
CopyIndex(t) == [t EXCEPT ![P_INDEX] = File(IndexBlob)]

LoopDone == pc = "loop" /\ i > Len(resources)

\* lines 117-119: no overrides directory, return; main prints Done.
CopyOverridesAbsent ==
  /\ LoopDone
  /\ ~pack.overrides.present
  /\ log' = Append(log, Ev("nooverrides", 0, TRUE, <<>>))
  /\ pc' = "exited"
  /\ outcome' = "Done"
  /\ exitCode' = 0
  /\ UNCHANGED <<archive, pack, tree, data, resources, i, run, snapshot, written>>

\* lines 124-129: copytree raises.
CopyOverridesFails ==
  /\ LoopDone
  /\ pack.overrides.present
  /\ ~CopyTree(tree, pack.overrides.tree).ok
  /\ tree' = CopyTree(tree, pack.overrides.tree).tree
  /\ written' = [p \in AllPaths |->
                   IF p \in Replaced(tree, pack.overrides.tree)
                     THEN NotWritten ELSE written[p]]
  /\ log' = Append(log, Ev("copytree", 0, FALSE, <<>>))
  /\ Fatal("OverlayFailed")
  /\ UNCHANGED <<archive, pack, data, resources, i, run, snapshot>>

\* lines 121-132, 148: the overlay, the manifest copy, Done.
CopyOverrides ==
  /\ LoopDone
  /\ pack.overrides.present
  /\ CopyTree(tree, pack.overrides.tree).ok
  /\ tree' = CopyIndex(CopyTree(tree, pack.overrides.tree).tree)
  /\ written' = [p \in AllPaths |->
                   IF p \in Replaced(tree, pack.overrides.tree) \cup {P_INDEX}
                     THEN NotWritten ELSE written[p]]
  /\ log' = log \o <<Ev("copytree", 0, TRUE, <<>>), Ev("copyindex", 0, TRUE, IndexBlob)>>
  /\ pc' = "exited"
  /\ outcome' = "Done"
  /\ exitCode' = 0
  /\ UNCHANGED <<archive, pack, data, resources, i, run, snapshot>>

(***************************************************************************)
(* The user starts the program again on the same archive.                  *)
(***************************************************************************)
Rerun ==
  /\ pc = "exited"
  /\ run < MaxRuns
  /\ run' = run + 1
  /\ snapshot' = [valid |-> outcome = "Done", tree |-> tree]
  /\ pc' = "loadModpack"
  /\ data' = NoData
  /\ resources' = <<>>
  /\ i' = 0
  /\ outcome' = "running"
  /\ exitCode' = 0
  /\ log' = <<>>
  /\ UNCHANGED <<archive, pack, tree, written>>

Next ==
  \/ LoadModpack
  \/ GetMods
  \/ DownloadMods
  \/ DownloadMkdirFails
  \/ DownloadSkip
  \/ DownloadFetchFails
  \/ DownloadHashMismatch
  \/ DownloadWrite
  \/ DownloadWriteFails
  \/ CopyOverridesAbsent
  \/ CopyOverridesFails
  \/ CopyOverrides
  \/ Rerun

Spec == Init /\ [][Next]_vars

(***************************************************************************)
(* Properties.                                                             *)
(***************************************************************************)
Events(op)       == { k \in 1..Len(log) : log[k].op = op }
EventsFor(op, n) == { k \in Events(op) : log[k].i = n }
Finished         == pc = "exited" /\ outcome = "Done"

\* The fetches of this run whose bytes do not have the expected digest.
MismatchedFetches ==
  { k \in Events("urlopen") :
      log[k].ok /\ Sha1Hex(log[k].data) # resources[log[k].i].hash }

\* C1: hash integrity.  When the bytes fetched for a resource (whose destination
\* did not exist) have a SHA-1 digest other than the expected one, nothing is
\* written, no file is at the destination, and the run has ended with
\* HashMismatch and a non-zero status.
C1_HashIntegrity ==
  \A k \in MismatchedFetches :
    /\ pc = "exited"
    /\ outcome = "HashMismatch"
    /\ exitCode # 0
    /\ tree[resources[log[k].i].path].kind = "none"
    /\ EventsFor("write", log[k].i) = {}

C1_Witness == MismatchedFetches # {}

\* The file entries of the manifest whose first URL has a host off the allow-list.
UnapprovedEntries ==
  { k \in 1..Len(pack.index.files) :
      Host(pack.index.files[k].downloads[1]) \notin ACCEPTED_DOMAINS }

\* C2: allow-list before network.  If any entry of a version-1 manifest, at
\* any position, has a first URL with a host off the allow-list, the run (once
\* past resolution) has failed with UnapprovedDomain and has fetched nothing;
\* and every URL handed to urlopen in any run has an allow-listed host.
C2_AllowListBeforeNetwork ==
  /\ ( /\ pack.exists /\ pack.hasIndex /\ pack.index.formatVersion = 1
       /\ UnapprovedEntries # {}
       /\ pc \notin {"loadModpack", "getMods"} )
     => ( /\ pc = "exited" /\ outcome = "UnapprovedDomain" /\ exitCode # 0
          /\ Events("urlopen") = {} )
  /\ \A k \in Events("urlopen") :
       Host(resources[log[k].i].url) \in ACCEPTED_DOMAINS

C2_Witness ==
  /\ outcome = "UnapprovedDomain"
  /\ 1 \notin UnapprovedEntries
  /\ UnapprovedEntries # {}

\* C3: idempotence.  In a run that follows a successful run on the same archive
\* nothing is fetched, and the run ends successfully with the install tree
\* exactly as the previous run left it.
C3_Idempotent ==
  snapshot.valid =>
    /\ Events("urlopen") = {}
    /\ pc = "exited" => (outcome = "Done" /\ tree = snapshot.tree)

\* A second successful run where two entries share a path and an override
\* file replaced the downloaded one.
C3_Witness ==
  /\ snapshot.valid
  /\ Finished
  /\ Len(resources) >= 2
  /\ resources[1].path = P_JAR /\ resources[2].path = P_JAR
  /\ pack.overrides = OV_JAR
  /\ tree[P_JAR] = File(OvBlob)

\* The paths that are a resource's destination and a file under overrides/.
Overridden ==
  { p \in AllPaths :
      /\ \E k \in 1..Len(resources) : resources[k].path = p
      /\ pack.overrides.present
      /\ pack.overrides.tree[p].kind = "file" }

StartTree == snapshot.tree

\* C6: fail-fast.  A failing step is the last thing a run does and ends it
\* with a non-zero status; a manifest of another format version leads to no
\* resolution, no fetch and no write to the install tree; when a resource
\* fails nothing is done for a later resource and no overlay happens; the
\* overlay and the manifest copy come only after every resource was skipped
\* or written without error.
C6_FailFast ==
  /\ \A k \in 1..Len(log) : ~log[k].ok => (k = Len(log) /\ pc = "exited" /\ exitCode # 0)
  /\ pc = "exited" => (exitCode # 0 <=> outcome # "Done")
  /\ pc # "exited" => outcome = "running"
  /\ ( /\ pack.exists /\ pack.hasIndex /\ pack.index.formatVersion # 1
       /\ pc # "loadModpack" )
     => ( /\ pc = "exited" /\ outcome = "UnsupportedVersion" /\ exitCode # 0
          /\ resources = <<>>
          /\ Events("urlopen") = {} /\ Events("write") = {}
          /\ Events("copytree") = {} /\ Events("copyindex") = {}
          /\ tree = StartTree )
  /\ outcome \in {"DownloadFailed", "HashMismatch", "Crash"}
     => ( /\ \A k \in 1..Len(log) : log[k].i <= i
          /\ Events("copytree") = {} /\ Events("copyindex") = {}
          /\ Events("nooverrides") = {} )
  /\ \A k \in Events("copytree") \cup Events("copyindex") \cup Events("nooverrides") :
       \A n \in 1..Len(resources) :
         \E j \in 1..(k - 1) : log[j].i = n /\ log[j].ok /\ log[j].op \in {"skip", "write"}

\* A run stopped by a failing resource that is not the last of the list.
C6_Witness ==
  /\ outcome \in {"DownloadFailed", "HashMismatch"}
  /\ i < Len(resources)
  /\ i > 1

\* The fetches whose digest equals the expected one up to letter case only.
CaseOnlyFetches ==
  { k \in Events("urlopen") :
      /\ log[k].ok
      /\ Lower(Sha1Hex(log[k].data)) = Lower(resources[log[k].i].hash)
      /\ Sha1Hex(log[k].data) # resources[log[k].i].hash }

\* C7 as stated: a resource whose expected digest equals the computed digest
\* up to letter case is accepted and written, not rejected with HashMismatch.
C7_CaseInsensitive_Stated ==
  \A k \in Events("urlopen") :
    (log[k].ok /\ Lower(Sha1Hex(log[k].data)) = Lower(resources[log[k].i].hash))
      => (outcome # "HashMismatch" /\ EventsFor("write", log[k].i) # {})

\* C7 amended: the comparison is an exact string comparison with the lower-case
\* hex digest.  A resource is accepted (a write follows) exactly when its
\* expected digest is character for character the computed one; an expected
\* digest that differs in letter case only is rejected with HashMismatch and
\* nothing is written.
C7_ExactComparison ==
  /\ \A k \in Events("urlopen") :
       log[k].ok =>
         ( Sha1Hex(log[k].data) = resources[log[k].i].hash
             <=> EventsFor("write", log[k].i) # {} )
  /\ \A k \in CaseOnlyFetches :
       /\ outcome = "HashMismatch"
       /\ tree[resources[log[k].i].path].kind = "none"

C7_Witness == CaseOnlyFetches # {}

\* C8 as stated: every successful run leaves a copy of the manifest at
\* modrinth.index.json in the install root, with or without overrides.
C8_ManifestCopied_Stated ==
  Finished => tree[P_INDEX] = File(IndexBlob)

\* C9 as stated: every file downloadMods created at a resource's destination
\* (and nothing has replaced since) holds complete bytes whose SHA-1 is that
\* resource's expected digest, also after a run that a failure ended.
C9_NoCorruptedFile_Stated ==
  \A p \in AllPaths :
    written[p].by => (tree[p].kind = "file" /\ Sha1Hex(tree[p].data) = written[p].hash)

\* C10: skip-if-present.  A loop iteration whose destination exists (file or
\* directory) changes nothing in the install tree, fetches and compares
\* nothing, and goes on to the next resource; an iteration whose destination
\* is missing (and whose parent directory can be made) starts with a fetch of
\* that resource.  So a run fetches exactly the resources whose destinations
\* are missing when they are reached.
C10_SkipIfPresent ==
  [][ /\ (InLoop /\ tree[Dest].kind # "none")
        => ( /\ tree' = tree
             /\ log' = Append(log, Ev("skip", i, TRUE, <<>>))
             /\ i' = i + 1 /\ pc' = pc )
      /\ (InLoop /\ tree[Dest].kind = "none" /\ Made.ok)
        => ( /\ Len(log') > Len(log)
             /\ log'[Len(log) + 1].op = "urlopen"
             /\ log'[Len(log) + 1].i = i )
    ]_vars

\* A run after an aborted run that skipped one resource and fetched another.
C10_Witness ==
  /\ run > 1
  /\ ~snapshot.valid
  /\ Events("skip") # {}
  /\ Events("urlopen") # {}

====
